---------------------------- MODULE Spec2Model ----------------------------
(***************************************************************************)
(* A model of post-tool-use/check-package-versions.py: the hook that       *)
(* reads one host event, finds the major-version diffs of the packages an  *)
(* install command touches, looks each diff up in the research cache file, *)
(* researches the uncached ones on a thread pool, and prints one document. *)
(*                                                                         *)
(* Python strings are sequences of tokens (a token is a TLA+ string), so   *)
(* that startswith, replace, formatting and the regular expressions are    *)
(* computed and not assumed.  Python values that may have several types    *)
(* (what json.load returns) are records with a "type" field.               *)
(***************************************************************************)
EXTENDS Integers, Sequences, FiniteSets, TLC

(***************************************************************************)
(* Bounds of the model and constants of the program.                       *)
(***************************************************************************)
\* packages a manifest holds in the model
MaxPkgs == 2
\* invocations of the hook in one behaviour
MaxInvocations == 2
\* diffs beyond the pool size in the pool specification
ExtraDiffs == 1
\* diffs in a list given to the filter in the filter specification
MaxDiffs == 4
\* ThreadPoolExecutor(max_workers=10)
MaxWorkers == 10

\* exit_status while the process runs
NoExit == 0 - 1

(***************************************************************************)
(* Strings.                                                                *)
(***************************************************************************)
Range(s) == {s[i] : i \in DOMAIN s}

Digits == <<"0", "1", "2", "3", "4", "5", "6", "7", "8", "9">>

IsDigit(c) == c \in Range(Digits)

DigitVal(c) == (CHOOSE i \in DOMAIN Digits : Digits[i] = c) - 1

\* str(n) for n >= 0, as "{old_major}" formats it
RECURSIVE Str(_)
Str(n) == IF n < 10 THEN <<Digits[n + 1]>>
          ELSE Str(n \div 10) \o <<Digits[(n % 10) + 1]>>

\* s.startswith(prefix), prefix one token
StartsWith(s, tok) == Len(s) > 0 /\ s[1] = tok

\* s.replace(tok, "")
Replace(s, tok) == SelectSeq(s, LAMBDA c : c # tok)

TYPES_PREFIX == "@types/"

LODASH == <<"lodash">>
TYPES_LODASH == <<"@types/", "lodash">>
REACT == <<"react">>

Packages == {LODASH, TYPES_LODASH, REACT}

\* the packages of the pool specification: pkg1, pkg2, ...
PoolPackage(i) == <<"pkg">> \o Str(i)

PoolSize == MaxWorkers + ExtraDiffs

\* version constraints a manifest may hold, and versions a registry may answer
InstalledVersions ==
    { <<"^", "1", ".", "0">>, <<"1", ".", "5">>, <<"*">> }

LatestVersions == { <<"1", ".", "9">>, <<"2", ".", "1">> }

None == <<"None">>

(***************************************************************************)
(* get_major_version: the first maximal run of decimal digits, as an int.  *)
(***************************************************************************)
RECURSIVE DigitRun(_, _, _)
DigitRun(s, i, acc) ==
    IF i <= Len(s) /\ IsDigit(s[i])
    THEN DigitRun(s, i + 1, acc * 10 + DigitVal(s[i]))
    ELSE acc

HasMajor(version_str) ==
    /\ version_str # None
    /\ \E i \in DOMAIN version_str : IsDigit(version_str[i])

get_major_version(version_str) ==
    LET first == CHOOSE i \in DOMAIN version_str :
                     /\ IsDigit(version_str[i])
                     /\ \A j \in 1..(i - 1) : ~IsDigit(version_str[j])
    IN DigitRun(version_str, first, 0)

(***************************************************************************)
(* cache_key: f"{pkg}:{old_major}->{new_major}".                           *)
(***************************************************************************)
cache_key(pkg, old_major, new_major) ==
    pkg \o <<":">> \o Str(old_major) \o <<"->">> \o Str(new_major)

\* a key of the exact installed version, not of its major
DiffKeyExact(d) ==
    cache_key(d.package \o <<"@">> \o d.installed_version, d.installed_major,
              d.latest_major)

\* line 380: the key of a diff
DiffKey(d) == cache_key(d.package, d.installed_major, d.latest_major)

(***************************************************************************)
(* Python values and JSON documents.  A value is a record with its type;   *)
(* items is the mapping of a dict (empty for the other types).  A document *)
(* is what the cache file holds: a JSON object with its members, a JSON    *)
(* array, null, text that is not JSON, or no file at all.                  *)
(***************************************************************************)
EmptyItems == [k \in {} |-> <<>>]

PyDict(items) == [type |-> "dict", items |-> items]
PyList == [type |-> "list", items |-> EmptyItems]
PyNone == [type |-> "NoneType", items |-> EmptyItems]
\* a name not yet bound
Unbound == [type |-> "unbound", items |-> EmptyItems]

Doc(json, members) == [json |-> json, members |-> members]
NoFile == Doc("missing", {})
InvalidDoc == Doc("invalid", {})

\* json.dump(value, f)
json_dump(value) ==
    CASE value.type = "dict" ->
             Doc("object", {<<k, value.items[k]>> : k \in DOMAIN value.items})
      [] value.type = "list" -> Doc("array", {})
      [] OTHER -> Doc("null", {})

\* json.load(f) of a document that decodes
json_load(doc) ==
    CASE doc.json = "object" ->
             LET keys == {m[1] : m \in doc.members}
             IN PyDict([k \in keys |->
                           (CHOOSE m \in doc.members : m[1] = k)[2]])
      [] doc.json = "array" -> PyList
      [] OTHER -> PyNone

\* load_cache(): the file as it is and whether reading it works
load_cache(f, io) ==
    IF f.json = "missing" \/ io # "ok" \/ f.json = "invalid"
    THEN PyDict(EmptyItems)
    ELSE json_load(f)

\* save_cache(cache): the file afterwards.  "denied": mkdir or open fails and
\* the file is as before; "partial": open(.., "w") has truncated the file and
\* the write fails; both exceptions are swallowed.
save_cache(f, c, io) ==
    CASE io = "ok" -> json_dump(c)
      [] io = "partial" -> InvalidDoc
      [] OTHER -> f

LoadOutcomes == {"ok", "error"}
SaveOutcomes == {"ok", "denied", "partial"}

\* key in cache
KeyIn(key, c) == c.type = "dict" /\ key \in DOMAIN c.items

\* cache[key] = text, on a dict
SetItem(c, key, text) ==
    PyDict([k \in DOMAIN c.items \cup {key} |->
               IF k = key THEN text ELSE c.items[k]])

(***************************************************************************)
(* check_version_diff, with the registry's answer (a version or None) as   *)
(* input, and the loop of main that collects the diffs.                    *)
(***************************************************************************)
\* a resolver that does not compare the majors
HasDiffAnyMajors(installed_version, latest) ==
    /\ HasMajor(installed_version)
    /\ latest # None /\ latest # <<>>
    /\ HasMajor(latest)

\* lines 176-194: whether check_version_diff returns a diff
HasDiff(installed_version, latest) ==
    /\ HasMajor(installed_version)
    /\ latest # None /\ latest # <<>>
    /\ HasMajor(latest)
    /\ get_major_version(installed_version) # get_major_version(latest)

check_version_diff(pkg, installed_version, latest) ==
    [package |-> pkg,
     installed_version |-> installed_version,
     installed_major |-> get_major_version(installed_version),
     latest_version |-> latest,
     latest_major |-> get_major_version(latest)]

\* lines 357-361: packages is the sequence of (name, version) of the dict
RECURSIVE CollectDiffs(_, _)
CollectDiffs(packages, latest) ==
    IF packages = <<>> THEN <<>>
    ELSE LET pkg == packages[1][1]
             version == packages[1][2]
             rest == CollectDiffs(Tail(packages), latest)
         IN IF HasDiff(version, latest[pkg])
            THEN <<check_version_diff(pkg, version, latest[pkg])>> \o rest
            ELSE rest

(***************************************************************************)
(* filter_redundant_types.                                                 *)
(***************************************************************************)
\* a filter that drops a shadow only when its base has the same majors
FilterSameMajors(ds) ==
    LET Keep(d) == ~(/\ StartsWith(d.package, TYPES_PREFIX)
                     /\ \E i \in DOMAIN ds :
                           /\ ds[i].package = Replace(d.package, TYPES_PREFIX)
                           /\ ds[i].installed_major = d.installed_major
                           /\ ds[i].latest_major = d.latest_major)
    IN SelectSeq(ds, Keep)

\* a filter that stops at the first shadow it drops
FilterFirstOnly(ds) ==
    LET base_packages == {ds[i].package : i \in
                             {j \in DOMAIN ds : ~StartsWith(ds[j].package, TYPES_PREFIX)}}
        Drop == {i \in DOMAIN ds :
                    /\ StartsWith(ds[i].package, TYPES_PREFIX)
                    /\ Replace(ds[i].package, TYPES_PREFIX) \in base_packages}
        first == CHOOSE i \in Drop : \A j \in Drop : i <= j
    IN IF Drop = {} THEN ds
       ELSE SubSeq(ds, 1, first - 1) \o SubSeq(ds, first + 1, Len(ds))

\* lines 237-252
filter_redundant_types(ds) ==
    LET base_packages == {ds[i].package : i \in
                             {j \in DOMAIN ds : ~StartsWith(ds[j].package, TYPES_PREFIX)}}
        Keep(d) == ~(/\ StartsWith(d.package, TYPES_PREFIX)
                     /\ Replace(d.package, TYPES_PREFIX) \in base_packages)
    IN SelectSeq(ds, Keep)

(***************************************************************************)
(* spawn_research.  The external agent is the environment: for a package   *)
(* it prints some text, runs past the timeout, or cannot be run.           *)
(***************************************************************************)
Whitespace == {" ", "\n"}

\* str.strip()
RECURSIVE Strip(_)
Strip(s) ==
    IF s = <<>> THEN s
    ELSE IF s[1] \in Whitespace THEN Strip(Tail(s))
    ELSE IF s[Len(s)] \in Whitespace THEN Strip(SubSeq(s, 1, Len(s) - 1))
    ELSE s

AgentStdouts == { <<"brief", "\n">>, <<" ", "(", "see notes", ")">> }

AgentOutcomes ==
    {[kind |-> "stdout", text |-> t] : t \in AgentStdouts}
    \cup {[kind |-> "timeout", text |-> <<>>], [kind |-> "error", text |-> <<>>]}

spawn_research(pkg, old_major, new_major, outcome) ==
    CASE outcome.kind = "stdout" -> Strip(outcome.text)
      [] outcome.kind = "timeout" ->
             <<"(", "Research timed out for ">> \o pkg \o <<")">>
      [] OTHER ->
             <<"(", "Research failed for ">> \o pkg \o <<": ", "OSError", ")">>

\* {**diff, "research": research}
WithResearch(d, research) ==
    [package |-> d.package,
     installed_version |-> d.installed_version,
     installed_major |-> d.installed_major,
     latest_version |-> d.latest_version,
     latest_major |-> d.latest_major,
     research |-> research]

\* research_worker(diff)
research_worker(d, outcome) ==
    WithResearch(d, spawn_research(d.package, d.installed_major, d.latest_major, outcome))

\* the marker of main's own except branch, line 425
FailedMarker == <<"(", "Research failed: ", "TypeError", ")">>

(***************************************************************************)
(* The state.                                                              *)
(***************************************************************************)
VARIABLES
    file,               \* the document CACHE_FILE holds (it outlives a process)
    inv,                \* which invocation of the hook this is
    pc,                 \* where main is
    hook_input,         \* the event read from stdin
    packages_to_check,  \* the dict of main, as its sequence of (name, version)
    diffs,
    cache,              \* the value load_cache returned
    cached_results,
    uncached_diffs,
    research_results,
    agent,              \* what the external agent does for each package asked
    futures,            \* per uncached diff: the state of its future, its result
    stdout,             \* the documents printed (none or one)
    exit_status,
    loaded,             \* what load_cache found in this invocation
    saved,              \* what save_cache did in this invocation
    rival,              \* a second process of the hook on the same cache file
    last_writer         \* the process whose save_cache returned last

vars == <<file, inv, pc, hook_input, packages_to_check, diffs, cache,
          cached_results, uncached_diffs, research_results, agent, futures,
          stdout, exit_status, loaded, saved, rival, last_writer>>

(***************************************************************************)
(* The inputs of one invocation.                                           *)
(***************************************************************************)
\* a command line: the manager whose pattern it matches ("" for none) and the
\* words after the install prefix, each word a string
Command(manager, args) == [manager |-> manager, args |-> args]

\* tokens that begin with one of the characters of [@=<>~!]
SpecifierTokens == {"@", "@types/"}

\* words that --?\w+ matches whole
FlagTokens == {"--save", "-D"}

IsFlag(word) == Len(word) = 1 /\ word[1] \in FlagTokens

\* line 161: re.sub(r"\s+--?\w+(\s+\S+)?", " ", cmd).  A flag is matched only
\* after whitespace, so never as the first word (line 159 has eaten the
\* whitespace before it); the match takes the word after the flag with it.
RECURSIVE RemoveFlags(_, _)
RemoveFlags(words, first) ==
    IF words = <<>> THEN <<>>
    ELSE IF ~first /\ IsFlag(words[1])
         THEN RemoveFlags(SubSeq(words, 3, Len(words)), FALSE)
         ELSE <<words[1]>> \o RemoveFlags(Tail(words), FALSE)

\* line 167: re.sub(r"[@=<>~!]+.*$", "", pkg)
BareName(word) ==
    LET at == {i \in DOMAIN word : word[i] \in SpecifierTokens}
    IN IF at = {} THEN word
       ELSE SubSeq(word, 1, (CHOOSE i \in at : \A j \in at : i <= j) - 1)

\* lines 163-171
RECURSIVE CleanNames(_)
CleanNames(words) ==
    IF words = <<>> THEN <<>>
    ELSE LET pkg == words[1]
             name == BareName(pkg)
             rest == CleanNames(Tail(words))
         IN IF pkg # <<>> /\ pkg[1] \notin FlagTokens /\ name # <<>>
            THEN <<name>> \o rest
            ELSE rest

\* parse_command_packages(command, manager), on the words after the prefix
parse_command_packages(args) == CleanNames(RemoveFlags(args, TRUE))

\* npm install, npm install lodash@5
InstallArgs == { <<>>, << <<"lodash", "@", "5">> >> }

\* the command lines of the model: no install command, or npm install ...
Commands == {Command("", <<>>)} \cup {Command("npm", a) : a \in InstallArgs}

Event(shape, tool_name, command) ==
    [shape |-> shape, tool_name |-> tool_name, command |-> command]

NoEvent == Event("unread", "", Command("", <<>>))

HookInputs ==
    {Event(sh, "", Command("", <<>>)) : sh \in {"undecodable", "invalid_json", "not_object"}}
    \cup {Event("object", t, c) : t \in {"Bash", "Edit"}, c \in Commands}

Min(a, b) == IF a < b THEN a ELSE b

\* what parse_package_json returns: at most MaxPkgs packages, each once
Manifests ==
    LET Entries == Packages \X InstalledVersions
        Lists == UNION {[1..n -> Entries] : n \in 0..Min(MaxPkgs, Cardinality(Packages))}
    IN {m \in Lists : \A i, j \in DOMAIN m : i # j => m[i][1] # m[j][1]}

\* lines 316-329: the packages to check, from the command and the manifest
PackagesToCheck(explicit_packages, installed) ==
    IF explicit_packages # <<>>
    THEN LET InInstalled(pkg) == \E i \in DOMAIN installed : installed[i][1] = pkg
             Version(pkg) == installed[CHOOSE i \in DOMAIN installed : installed[i][1] = pkg][2]
             named == SelectSeq(explicit_packages, InInstalled)
         IN [i \in DOMAIN named |-> <<named[i], Version(named[i])>>]
    ELSE installed

\* what get_npm_latest returns for each package: a version, a tag without a
\* number, the empty string, or None
RegistryAnswers == [Packages -> LatestVersions \cup {<<"next">>, <<>>, None}]

\* what the first process finds: no file, text that is not JSON, JSON that is
\* no object, or the file an earlier run has left
InitialFiles ==
    {NoFile, InvalidDoc, Doc("array", {}), Doc("null", {}),
     Doc("object", {<<cache_key(LODASH, 1, 2), <<"brief">> >>})}

NewFuture == [state |-> "new", result |-> <<>>]

(***************************************************************************)
(* One invocation.                                                         *)
(***************************************************************************)
Fresh ==
    /\ pc = "read_input"
    /\ hook_input = NoEvent
    /\ packages_to_check = <<>>
    /\ diffs = <<>>
    /\ cache = Unbound
    /\ cached_results = <<>>
    /\ uncached_diffs = <<>>
    /\ research_results = <<>>
    /\ agent = EmptyItems
    /\ futures = <<>>
    /\ stdout = <<>>
    /\ exit_status = NoExit
    /\ loaded = "no"
    /\ saved = "no"

\* the other process has not been started
NoRival == [pc |-> "idle", diffs |-> <<>>, cache |-> Unbound]

Init ==
    /\ file \in InitialFiles
    /\ inv = 1
    /\ Fresh
    /\ rival = NoRival
    /\ last_writer = "none"

\* sys.exit(status), or an exception nobody catches (status 1, a traceback)
Exit(status) ==
    /\ pc' = "exited"
    /\ exit_status' = status

Uncaught == Exit(1)

\* lines 256-352, for the events the host may send
ReadHookInputFrom(inputs) ==
    /\ pc = "read_input"
    /\ \E h \in inputs, installed \in Manifests :
          /\ hook_input' = h
          /\ CASE h.shape = "invalid_json" ->
                      Exit(0) /\ UNCHANGED packages_to_check
               [] h.shape = "undecodable" ->
                      \* UnicodeDecodeError under a strict stdin, JSONDecodeError
                      \* under surrogateescape
                      (Exit(0) \/ Uncaught) /\ UNCHANGED packages_to_check
               [] h.shape = "not_object" ->
                      Uncaught /\ UNCHANGED packages_to_check
               [] OTHER ->
                      IF h.tool_name # "Bash" \/ h.command.manager = ""
                      THEN Exit(0) /\ UNCHANGED packages_to_check
                      ELSE /\ packages_to_check' =
                                  PackagesToCheck(
                                      parse_command_packages(h.command.args),
                                      installed)
                           /\ IF packages_to_check' = <<>>
                              THEN Exit(0)
                              ELSE pc' = "check_versions" /\ UNCHANGED exit_status
    /\ UNCHANGED <<file, inv, diffs, cache, cached_results, uncached_diffs,
                   research_results, agent, futures, stdout, loaded, saved, rival, last_writer>>

ReadHookInput == ReadHookInputFrom(HookInputs)

\* lines 356-365
CheckVersions ==
    /\ pc = "check_versions"
    /\ \E latest \in RegistryAnswers :
          diffs' = CollectDiffs(packages_to_check, latest)
    /\ IF diffs' = <<>>
       THEN Exit(0)
       ELSE pc' = "filter" /\ UNCHANGED exit_status
    /\ UNCHANGED <<file, inv, hook_input, packages_to_check, cache, cached_results,
                   uncached_diffs, research_results, agent, futures, stdout, loaded, saved, rival, last_writer>>

\* lines 367-370
FilterDiffs ==
    /\ pc = "filter"
    /\ diffs' = filter_redundant_types(diffs)
    /\ pc' = "load_cache"
    /\ UNCHANGED <<file, inv, hook_input, packages_to_check, cache, cached_results,
                   uncached_diffs, research_results, agent, futures, stdout,
                   exit_status, loaded, saved, rival, last_writer>>

\* lines 375-385: the diffs whose key is in the cache, with the cached text
CachedResults(ds, c) ==
    LET hits == SelectSeq(ds, LAMBDA d : KeyIn(DiffKey(d), c))
    IN [i \in DOMAIN hits |-> WithResearch(hits[i], c.items[DiffKey(hits[i])])]

UncachedDiffs(ds, c) == SelectSeq(ds, LAMBDA d : ~KeyIn(DiffKey(d), c))

PackagesOf(ds) == {ds[i].package : i \in DOMAIN ds}

\* lines 372-396.  "key in cache" raises TypeError on None, and nobody catches it.
LoadCache ==
    /\ pc = "load_cache"
    /\ \E io \in LoadOutcomes :
          /\ cache' = load_cache(file, io)
          /\ loaded' = IF io = "ok" THEN file.json ELSE "error"
    /\ IF cache'.type = "NoneType"
       THEN /\ Uncaught
            /\ UNCHANGED <<cached_results, uncached_diffs, research_results,
                           agent, futures>>
       ELSE /\ cached_results' = CachedResults(diffs, cache')
            /\ uncached_diffs' = UncachedDiffs(diffs, cache')
            /\ research_results' = cached_results'
            /\ futures' = [i \in DOMAIN uncached_diffs' |-> NewFuture]
            /\ agent' \in [PackagesOf(uncached_diffs') -> AgentOutcomes]
            /\ pc' = IF uncached_diffs' = <<>> THEN "compose" ELSE "submit"
            /\ UNCHANGED exit_status
    /\ UNCHANGED <<file, inv, hook_input, packages_to_check, diffs, stdout, saved, rival, last_writer>>

(***************************************************************************)
(* The dispatcher: main submits every uncached diff to the executor, then  *)
(* takes the futures as they complete; the executor's workers run the      *)
(* queued calls, oldest first.                                             *)
(***************************************************************************)
InState(fs, st) == {i \in DOMAIN fs : fs[i].state = st}

\* research calls started and not yet returned
InFlight == Cardinality(InState(futures, "running"))

\* a pool that starts one call too many
WorkerAvailableOffByOne(fs) == Cardinality(InState(fs, "running")) <= MaxWorkers

\* ThreadPoolExecutor(max_workers=10): a queued call starts when fewer than
\* max_workers calls are running
WorkerAvailable(fs) == Cardinality(InState(fs, "running")) < MaxWorkers

\* line 409: executor.submit(research_worker, diff), for each diff in turn
Submit ==
    /\ pc = "submit"
    /\ LET i == CHOOSE j \in InState(futures, "new") :
                    \A k \in InState(futures, "new") : j <= k
       IN /\ futures' = [futures EXCEPT ![i].state = "pending"]
          /\ pc' = IF InState(futures', "new") = {} THEN "as_completed" ELSE "submit"
    /\ UNCHANGED <<file, inv, hook_input, packages_to_check, diffs, cache,
                   cached_results, uncached_diffs, research_results, agent,
                   stdout, exit_status, loaded, saved, rival, last_writer>>

\* a worker takes the oldest queued call and enters spawn_research
StartResearch(i) ==
    /\ i \in InState(futures, "pending")
    /\ \A k \in InState(futures, "pending") : i <= k
    /\ WorkerAvailable(futures)
    /\ futures' = [futures EXCEPT ![i].state = "running"]
    /\ UNCHANGED <<file, inv, pc, hook_input, packages_to_check, diffs, cache,
                   cached_results, uncached_diffs, research_results, agent,
                   stdout, exit_status, loaded, saved, rival, last_writer>>

\* lines 398-405, 219-234: the call returns its text or its failure marker
FinishResearch(i) ==
    /\ i \in InState(futures, "running")
    /\ futures' = [futures EXCEPT ![i] =
           [state |-> "finished",
            result |-> <<research_worker(uncached_diffs[i],
                                         agent[uncached_diffs[i].package])>>]]
    /\ UNCHANGED <<file, inv, pc, hook_input, packages_to_check, diffs, cache,
                   cached_results, uncached_diffs, research_results, agent,
                   stdout, exit_status, loaded, saved, rival, last_writer>>

\* a loop that stores every result
CacheableAlways(result) == TRUE

\* line 415: whether the loop stores the result in the cache
Cacheable(result) == ~StartsWith(result.research, "(")

\* a loop that leaves the failures out
AppendResultDroppingFailures(results, result, c, d) ==
    IF Cacheable(result) THEN Append(results, result) ELSE results

\* lines 412-426: research_results after the loop body has run for one result.
\* cache[key] = ... raises TypeError on a list: the result is appended already,
\* and the except branch appends a second one for the diff.
AppendResult(results, result, c, d) ==
    IF Cacheable(result) /\ c.type # "dict"
    THEN Append(Append(results, result), WithResearch(d, FailedMarker))
    ELSE Append(results, result)

\* lines 415-417: the cache after the loop body has run for one result
CacheResult(c, result) ==
    IF Cacheable(result) /\ c.type = "dict"
    THEN SetItem(c, cache_key(result.package, result.installed_major,
                              result.latest_major), result.research)
    ELSE c

\* a loop that ends when every call is submitted, returned or not
AllSubmitted(fs) == InState(fs, "new") = {}

\* a loop that ends with the first future yielded
AllCollectedFirst(fs) == InState(fs, "yielded") # {}

\* line 410: as_completed(futures) ends when every future has been yielded
AllCollected(fs) == InState(fs, "yielded") = DOMAIN fs

\* lines 410-426, the body of the as_completed loop for one finished future.
\* as_completed yields the futures that were finished when it was called in
\* the order of a set, and the others as they finish: any finished future may
\* be the next one.
Collect(i) ==
    /\ pc = "as_completed"
    /\ i \in InState(futures, "finished")
    /\ LET result == futures[i].result[1]
       IN /\ research_results' =
                 AppendResult(research_results, result, cache, uncached_diffs[i])
          /\ cache' = CacheResult(cache, result)
    /\ futures' = [futures EXCEPT ![i].state = "yielded"]
    /\ pc' = IF AllCollected(futures') THEN "save_cache" ELSE "as_completed"
    /\ UNCHANGED <<file, inv, hook_input, packages_to_check, diffs,
                   cached_results, uncached_diffs, agent, stdout, exit_status, loaded, saved, rival, last_writer>>

\* lines 428-430
SaveCache ==
    /\ pc = "save_cache"
    /\ \E io \in SaveOutcomes :
          /\ file' = save_cache(file, cache, io)
          /\ saved' = io
    /\ pc' = "compose"
    /\ UNCHANGED <<inv, hook_input, packages_to_check, diffs, cache, cached_results,
                   uncached_diffs, research_results, agent, futures, stdout,
                   exit_status, loaded, rival, last_writer>>

(***************************************************************************)
(* The Result Composer, lines 432-479.                                     *)
(***************************************************************************)
TableRow(r) ==
    [package |-> r.package, installed_major |-> r.installed_major,
     latest_major |-> r.latest_major]

Section(r) ==
    [package |-> r.package, installed_major |-> r.installed_major,
     latest_major |-> r.latest_major, research |-> r.research]

\* lines 461-467
Summary(checked, results, cached) ==
    LET cached_count == Len(SelectSeq(results, LAMBDA r : r \in Range(cached)))
        researched_count == Len(results) - cached_count
    IN [checked |-> checked,
        diffs |-> Len(results),
        researched |-> researched_count,
        cached |-> cached_count,
        form |-> IF researched_count > 0 THEN "researched" ELSE "all cached"]

Document(checked, results, cached) ==
    [systemMessage |-> Summary(checked, results, cached),
     table_rows |-> [i \in DOMAIN results |-> TableRow(results[i])],
     sections |-> [i \in DOMAIN results |-> Section(results[i])]]

Compose ==
    /\ pc = "compose"
    /\ stdout' = <<Document(Len(packages_to_check), research_results, cached_results)>>
    /\ Exit(2)
    /\ UNCHANGED <<file, inv, hook_input, packages_to_check, diffs, cache,
                   cached_results, uncached_diffs, research_results, agent,
                   futures, loaded, saved, rival, last_writer>>

\* the host runs the hook again: a new process, the same cache file
NextInvocation ==
    /\ pc = "exited"
    /\ inv < MaxInvocations
    /\ inv' = inv + 1
    /\ pc' = "read_input"
    /\ hook_input' = NoEvent
    /\ packages_to_check' = <<>>
    /\ diffs' = <<>>
    /\ cache' = Unbound
    /\ cached_results' = <<>>
    /\ uncached_diffs' = <<>>
    /\ research_results' = <<>>
    /\ agent' = EmptyItems
    /\ futures' = <<>>
    /\ stdout' = <<>>
    /\ exit_status' = NoExit
    /\ loaded' = "no"
    /\ saved' = "no"
    /\ UNCHANGED <<file, rival, last_writer>>

\* the steps of one process
Invocation ==
    \/ ReadHookInput
    \/ CheckVersions
    \/ FilterDiffs
    \/ LoadCache
    \/ Submit
    \/ \E i \in DOMAIN futures : StartResearch(i)
    \/ \E i \in DOMAIN futures : FinishResearch(i)
    \/ \E i \in DOMAIN futures : Collect(i)
    \/ SaveCache
    \/ Compose

Next == Invocation \/ NextInvocation

Spec == Init /\ [][Next]_vars

\* One process whose threads are scheduled fairly: main keeps submitting and
\* collecting, a free worker takes the oldest queued call, and a call returns
\* (subprocess.run returns, raises, or hits timeout=300).
FairSpec ==
    /\ Init
    /\ [][Invocation]_vars
    /\ WF_vars(Submit)
    /\ \A i \in 1..Cardinality(Packages) :
          /\ WF_vars(StartResearch(i))
          /\ WF_vars(FinishResearch(i))
          /\ WF_vars(Collect(i))

(***************************************************************************)
(* The pool specification: the dispatcher with up to PoolSize uncached     *)
(* diffs, more than the executor has workers (a manifest of that many      *)
(* packages, each a major behind, and no cache file), from the first       *)
(* submit on.  It holds the submitting main thread and the workers; the    *)
(* collecting loop, which reads finished futures only, is left to Spec.    *)
(***************************************************************************)
PoolDiffs ==
    [i \in 1..PoolSize |->
        check_version_diff(PoolPackage(i), <<"1", ".", "5">>, <<"2", ".", "1">>)]

\* the agent answers every call; or the first call hangs; or the last cannot run
PoolAgents ==
    LET Brief == [kind |-> "stdout", text |-> <<"brief", "\n">>]
        Except(i, kind) ==
            [p \in PackagesOf(PoolDiffs) |->
                IF p = PoolPackage(i) THEN [kind |-> kind, text |-> <<>>] ELSE Brief]
    IN {[p \in PackagesOf(PoolDiffs) |-> Brief], Except(1, "timeout"),
        Except(PoolSize, "error")}

InitPool ==
    /\ file = NoFile
    /\ inv = 1
    /\ pc = "submit"
    /\ hook_input = Event("object", "Bash", Command("npm", <<>>))
    /\ \E n \in 1..PoolSize :
          /\ packages_to_check =
                 [i \in 1..n |-> <<PoolPackage(i), <<"1", ".", "5">> >>]
          /\ diffs = SubSeq(PoolDiffs, 1, n)
          /\ uncached_diffs = SubSeq(PoolDiffs, 1, n)
          /\ futures = [i \in 1..n |-> NewFuture]
    /\ cache = PyDict(EmptyItems)
    /\ cached_results = <<>>
    /\ research_results = <<>>
    /\ agent \in PoolAgents
    /\ stdout = <<>>
    /\ exit_status = NoExit
    /\ loaded = "missing"
    /\ saved = "no"
    /\ rival = NoRival
    /\ last_writer = "none"

NextPool ==
    \/ Submit
    \/ \E i \in DOMAIN futures : StartResearch(i)
    \/ \E i \in DOMAIN futures : FinishResearch(i)

SpecPool == InitPool /\ [][NextPool]_vars

(***************************************************************************)
(* The command specification: one invocation up to the dispatcher, for     *)
(* install commands that name packages in several ways.                    *)
(***************************************************************************)
\* npm install; npm install lodash@5; npm install @types/lodash;
\* npm install lodash --save react; npm install --save lodash;
\* npm install @types/lodash@4 react
NamingArgs ==
    InstallArgs \cup
    { << <<"@types/", "lodash">> >>,
      << <<"lodash">>, <<"--save">>, <<"react">> >>,
      << <<"--save">>, <<"lodash">> >>,
      << <<"@types/", "lodash", "@", "4">>, <<"react">> >> }

NamingInputs == {Event("object", "Bash", Command("npm", a)) : a \in NamingArgs}

NextCommand ==
    \/ ReadHookInputFrom(NamingInputs)
    \/ CheckVersions
    \/ FilterDiffs
    \/ LoadCache

SpecCommand == Init /\ [][NextCommand]_vars

(***************************************************************************)
(* The filter specification: filter_redundant_types on every list of at    *)
(* most MaxDiffs diffs of different packages, applied once (main, line     *)
(* 368) and then once more to its own output.                              *)
(***************************************************************************)
TYPES_REACT == <<"@types/", "react">>

FilterPackages == Packages \cup {TYPES_REACT}

\* installed versions of two different majors; the registry answers 2.1
FilterInstalled == { <<"1", ".", "5">>, <<"0", ".", "9">> }

\* manifests of at most MaxDiffs packages, each package once
FilterManifests ==
    LET Entries == FilterPackages \X FilterInstalled
        Lists == UNION {[1..n -> Entries] :
                           n \in 0..Min(MaxDiffs, Cardinality(FilterPackages))}
    IN {m \in Lists : \A i, j \in DOMAIN m : i # j => m[i][1] # m[j][1]}

InitFilter ==
    /\ file = NoFile
    /\ inv = 1
    /\ pc = "filter"
    /\ hook_input = Event("object", "Bash", Command("npm", <<>>))
    /\ packages_to_check \in FilterManifests
    /\ diffs = CollectDiffs(packages_to_check,
                            [p \in FilterPackages |-> <<"2", ".", "1">>])
    /\ cache = Unbound
    /\ cached_results = <<>>
    /\ uncached_diffs = <<>>
    /\ research_results = <<>>
    /\ agent = EmptyItems
    /\ futures = <<>>
    /\ stdout = <<>>
    /\ exit_status = NoExit
    /\ loaded = "no"
    /\ saved = "no"
    /\ rival = NoRival
    /\ last_writer = "none"

\* filter_redundant_types(filter_redundant_types(diffs))
FilterAgain ==
    /\ pc = "load_cache"
    /\ diffs' = filter_redundant_types(diffs)
    /\ pc' = "filtered_again"
    /\ UNCHANGED <<file, inv, hook_input, packages_to_check, cache,
                   cached_results, uncached_diffs, research_results, agent,
                   futures, stdout, exit_status, loaded, saved, rival,
                   last_writer>>

NextFilter == FilterDiffs \/ FilterAgain

SpecFilter == InitFilter /\ [][NextFilter]_vars

(***************************************************************************)
(* The race specification: two processes of the hook, started by two       *)
(* install commands at about the same time, on one cache file.  Both are   *)
(* past the filter.  save_cache is two steps here, because the other       *)
(* process can run between them: open(CACHE_FILE, "w") truncates the file, *)
(* and json.dump with the close writes the text at offset 0.  The rival    *)
(* runs the same code; only its steps on the cache are kept apart.         *)
(***************************************************************************)
RECURSIVE MembersSize(_)
MembersSize(members) ==
    IF members = {} THEN 0
    ELSE LET m == CHOOSE x \in members : TRUE
         IN Len(m[1]) + Len(m[2]) + 1 + MembersSize(members \ {m})

\* the length of the text json.dump(cache, f, indent=2) writes: the brackets,
\* and for each member its key, its text and a separator
DocSize(doc) == 2 + MembersSize(doc.members)

\* open(CACHE_FILE, "w"): the file is empty, which json.load cannot decode
Truncate(f) == InvalidDoc

\* the file after a process has written its text at offset 0 and closed:
\* the text, followed by what the file held beyond the length of the text,
\* which json.load rejects as extra data.  The file is empty or holds the
\* whole text of the other process.
Overlay(f, written) ==
    IF f.json = "invalid" \/ DocSize(written) >= DocSize(f)
    THEN written
    ELSE InvalidDoc

\* lines 410-417, for all the results of a dispatcher
RECURSIVE CacheResults(_, _)
CacheResults(c, results) ==
    IF results = <<>> THEN c
    ELSE CacheResults(CacheResult(c, results[1]), Tail(results))

\* lines 372-385, in the rival
RivalLoadCache ==
    /\ rival.pc = "load_cache"
    /\ \E io \in LoadOutcomes :
          LET c == load_cache(file, io)
          IN rival' = [rival EXCEPT
                 !.cache = c,
                 !.pc = IF c.type = "NoneType" \/ UncachedDiffs(rival.diffs, c) = <<>>
                        THEN "exited" ELSE "dispatch"]
    /\ UNCHANGED <<file, inv, pc, hook_input, packages_to_check, diffs, cache,
                   cached_results, uncached_diffs, research_results, agent,
                   futures, stdout, exit_status, loaded, saved, last_writer>>

\* lines 390-426, in the rival: every call returns, and the loop has stored
\* the texts
RivalDispatch ==
    /\ rival.pc = "dispatch"
    /\ LET uncached == UncachedDiffs(rival.diffs, rival.cache)
       IN \E a \in [PackagesOf(uncached) -> AgentOutcomes] :
             rival' = [rival EXCEPT
                 !.cache = CacheResults(rival.cache,
                     [i \in DOMAIN uncached |->
                         research_worker(uncached[i], a[uncached[i].package])]),
                 !.pc = "save_cache"]
    /\ UNCHANGED <<file, inv, pc, hook_input, packages_to_check, diffs, cache,
                   cached_results, uncached_diffs, research_results, agent,
                   futures, stdout, exit_status, loaded, saved, last_writer>>

\* line 53, in the rival
RivalOpen ==
    /\ rival.pc = "save_cache"
    /\ file' = Truncate(file)
    /\ rival' = [rival EXCEPT !.pc = "write_cache"]
    /\ UNCHANGED <<inv, pc, hook_input, packages_to_check, diffs, cache,
                   cached_results, uncached_diffs, research_results, agent,
                   futures, stdout, exit_status, loaded, saved, last_writer>>

\* line 54 and the end of the with block, in the rival
RivalWrite ==
    /\ rival.pc = "write_cache"
    /\ file' = Overlay(file, json_dump(rival.cache))
    /\ rival' = [rival EXCEPT !.pc = "saved"]
    /\ last_writer' = "rival"
    /\ UNCHANGED <<inv, pc, hook_input, packages_to_check, diffs, cache,
                   cached_results, uncached_diffs, research_results, agent,
                   futures, stdout, exit_status, loaded, saved>>

\* line 53
OpenCache ==
    /\ pc = "save_cache"
    /\ file' = Truncate(file)
    /\ pc' = "write_cache"
    /\ UNCHANGED <<inv, hook_input, packages_to_check, diffs, cache,
                   cached_results, uncached_diffs, research_results, agent,
                   futures, stdout, exit_status, loaded, saved, rival,
                   last_writer>>

\* line 54 and the end of the with block
WriteCache ==
    /\ pc = "write_cache"
    /\ file' = Overlay(file, json_dump(cache))
    /\ saved' = "ok"
    /\ last_writer' = "main"
    /\ pc' = "compose"
    /\ UNCHANGED <<inv, hook_input, packages_to_check, diffs, cache,
                   cached_results, uncached_diffs, research_results, agent,
                   futures, stdout, exit_status, loaded, rival>>

\* what package.json holds in the two working directories
RaceManifests ==
    { << <<LODASH, <<"1", ".", "5">> >> >>,
      << <<REACT, <<"1", ".", "5">> >> >>,
      << <<LODASH, <<"1", ".", "5">> >>, <<REACT, <<"1", ".", "5">> >> >> }

\* the diffs of a manifest when the registry answers 2.1 for every package
RaceDiffs(m) ==
    filter_redundant_types(CollectDiffs(m, [p \in Packages |-> <<"2", ".", "1">>]))

InitRace ==
    /\ file \in {NoFile, Doc("object", {<<cache_key(LODASH, 1, 2), <<"brief">> >>})}
    /\ inv = 1
    /\ pc = "load_cache"
    /\ hook_input = Event("object", "Bash", Command("npm", <<>>))
    /\ packages_to_check \in RaceManifests
    /\ diffs = RaceDiffs(packages_to_check)
    /\ cache = Unbound
    /\ cached_results = <<>>
    /\ uncached_diffs = <<>>
    /\ research_results = <<>>
    /\ agent = EmptyItems
    /\ futures = <<>>
    /\ stdout = <<>>
    /\ exit_status = NoExit
    /\ loaded = "no"
    /\ saved = "no"
    /\ \E m \in RaceManifests :
          rival = [pc |-> "load_cache", diffs |-> RaceDiffs(m), cache |-> Unbound]
    /\ last_writer = "none"

NextRace ==
    \/ LoadCache
    \/ Submit
    \/ \E i \in DOMAIN futures : StartResearch(i)
    \/ \E i \in DOMAIN futures : FinishResearch(i)
    \/ \E i \in DOMAIN futures : Collect(i)
    \/ OpenCache
    \/ WriteCache
    \/ Compose
    \/ RivalLoadCache
    \/ RivalDispatch
    \/ RivalOpen
    \/ RivalWrite

SpecRace == InitRace /\ [][NextRace]_vars

(***************************************************************************)
(* The claims.                                                             *)
(***************************************************************************)
FileKeys(f) == {m[1] : m \in f.members}

Failed(i) == agent[uncached_diffs[i].package].kind \in {"timeout", "error"}

Returned(i) == futures[i].state \in {"finished", "yielded"}

\* C1: whatever the number of uncached diffs (PoolSize of them here, more than
\* the pool has workers), at most 10 research calls have started and not yet
\* returned, in every state of every interleaving.
C1_AtMostTenInFlight == InFlight <= 10

\* ten calls are running and the next diff waits in the queue
C1_PoolSaturated ==
    /\ Len(uncached_diffs) > 10
    /\ InFlight = 10
    /\ InState(futures, "pending") # {}

\* C2: a research call that timed out or could not be run leaves no entry
\* for its diff's key in the in-memory cache, nor in the file once save_cache
\* has written it; and a diff whose key the cache file does not hold is
\* dispatched to research.
C2_FailedNeverCached ==
    /\ \A i \in DOMAIN futures :
          (Returned(i) /\ Failed(i)) =>
              /\ ~KeyIn(DiffKey(uncached_diffs[i]), cache)
              /\ saved = "ok" => DiffKey(uncached_diffs[i]) \notin FileKeys(file)
    /\ (loaded # "no" /\ saved = "no" /\ exit_status # 1) =>
          \A i \in DOMAIN diffs :
              DiffKey(diffs[i]) \notin FileKeys(file) =>
                  diffs[i] \in Range(uncached_diffs)

\* a call timed out beside one that succeeded, and the cache was saved
C2_FailureSaved ==
    /\ saved = "ok"
    /\ file.members # {}
    /\ \E i \in DOMAIN futures : futures[i].state = "yielded" /\ Failed(i)

\* the diff of future i has its result in research_results: the agent's text
\* or the failure marker
HasResult(i) ==
    LET d == uncached_diffs[i]
    IN WithResearch(d, spawn_research(d.package, d.installed_major, d.latest_major,
                                      agent[d.package])) \in Range(research_results)

DispatcherReturned ==
    \A i \in DOMAIN futures : futures[i].state = "yielded" /\ HasResult(i)

\* C3: with the threads scheduled fairly, a dispatcher that has started
\* finishes, whatever calls time out or fail; and main is past the dispatcher
\* only when every submitted call has returned and been collected, each diff
\* with its text or its failure marker.
C3_DispatcherCompletes ==
    /\ (pc = "submit") ~> (pc = "save_cache" /\ DispatcherReturned)
    /\ [](pc \in {"save_cache", "compose", "exited"} => DispatcherReturned)

\* the dispatcher has returned with one call failed and its sibling answered
C3_SiblingOfFailureDone ==
    /\ pc = "save_cache"
    /\ \E i, j \in DOMAIN futures :
          /\ Failed(i) /\ ~Failed(j)
          /\ futures[i].state = "yielded" /\ futures[j].state = "yielded"

Printed == stdout[1]

RECURSIVE Dedup(_)
Dedup(s) ==
    IF s = <<>> THEN <<>>
    ELSE <<s[1]>> \o Dedup(SelectSeq(Tail(s), LAMBDA x : x # s[1]))

PackageOrder(rs) == Dedup([i \in DOMAIN rs |-> rs[i].package])

\* C5: the order of the results printed is the same in every interleaving of
\* the research calls: it is a function of the diffs and the cache, so it is
\* the order of the run in which the calls complete as submitted (the cached
\* results, then the uncached diffs in their order).
C5_DeterministicOrder ==
    exit_status = 2 =>
        /\ PackageOrder(Printed.table_rows) =
               PackageOrder(cached_results \o uncached_diffs)
        /\ PackageOrder(Printed.sections) = PackageOrder(Printed.table_rows)

\* the text the output owes a diff: the cached one, or what its call returned
ExpectedResearch(d) ==
    IF \E r \in Range(cached_results) : r.package = d.package
    THEN (CHOOSE r \in Range(cached_results) : r.package = d.package).research
    ELSE spawn_research(d.package, d.installed_major, d.latest_major, agent[d.package])

\* C6: every diff that survives the filter has a table row and a detail
\* section in the document printed, with its cached text, the text its
\* research call returned, or the failure marker of that call.
C6_NoResultDropped ==
    exit_status = 2 =>
        \A i \in DOMAIN diffs :
            /\ TableRow(diffs[i]) \in Range(Printed.table_rows)
            /\ Section(WithResearch(diffs[i], ExpectedResearch(diffs[i])))
                   \in Range(Printed.sections)

\* a document with a cached result and the marker of a failed call
C6_CachedAndFailedPrinted ==
    /\ exit_status = 2
    /\ cached_results # <<>>
    /\ \E i \in DOMAIN futures : Failed(i)

\* C7: the process prints the document and exits 2 exactly when a diff was
\* detected; otherwise it exits 0, prints nothing, makes no research call and
\* does not write the cache.
C7_ExitProtocol ==
    pc = "exited" =>
        /\ (exit_status = 2 /\ stdout # <<>>) <=> (diffs # <<>>)
        /\ diffs = <<>> =>
              /\ exit_status = 0
              /\ stdout = <<>>
              /\ futures = <<>>
              /\ saved = "no"

\* C8: the process ends with status 0 or 2, never with an exception nobody
\* caught; on a host event that cannot be decoded or is malformed it exits 0
\* and prints nothing.
C8_NoErrorEscapes ==
    pc = "exited" =>
        /\ exit_status \in {0, 2}
        /\ hook_input.shape # "object" => (exit_status = 0 /\ stdout = <<>>)

\* C9: when load_cache finds no usable mapping (an I/O error, no file, text
\* that is not JSON, JSON that is no object) the run is the run of an empty
\* cache: every diff is researched and printed once, exit 2; and a failing
\* save_cache changes neither the document nor the status.
C9_CacheUnavailable ==
    /\ (pc = "exited" /\ loaded \in {"error", "missing", "invalid", "array", "null"}) =>
          /\ exit_status = 2
          /\ uncached_diffs = diffs
          /\ Printed.table_rows = [i \in DOMAIN diffs |-> TableRow(diffs[i])]
    /\ (pc = "exited" /\ saved \in {"denied", "partial"}) =>
          /\ exit_status = 2
          /\ Printed = Document(Len(packages_to_check), research_results, cached_results)

\* C10: an entry of the cache file stays in the file, with its text, through
\* every step of every later invocation.
C10_EntriesPermanent ==
    [][\A m \in file.members : m \in file'.members]_vars

\* a member of the file is the text an agent printed for the diff of its key
ProducedFor(m) ==
    \E d \in Range(diffs) \cup Range(rival.diffs) : \E t \in AgentStdouts :
        /\ m[1] = cache_key(d.package, d.installed_major, d.latest_major)
        /\ m[2] = Strip(t)

\* C11: when two invocations overlap on the cache file and both have saved,
\* the file is the mapping of the one whose save returned last (what it
\* loaded, and its own successful research), and every key of the file has
\* a text that was researched for that key's package and majors.
C11_LastWriterWins ==
    (saved = "ok" /\ rival.pc = "saved") =>
        /\ file = json_dump(IF last_writer = "main" THEN cache ELSE rival.cache)
        /\ \A m \in file.members : ProducedFor(m)

\* C12: once the dispatcher has returned, every uncached diff whose research
\* call returned the agent's text (it neither timed out nor failed to run)
\* has that text in the cache under its key, and in the file once save_cache
\* has written the cache.
C12_SuccessCached ==
    pc \in {"save_cache", "compose", "exited"} =>
        \A i \in DOMAIN futures :
            LET d == uncached_diffs[i]
                outcome == agent[d.package]
            IN outcome.kind = "stdout" =>
                   /\ KeyIn(DiffKey(d), cache)
                   /\ cache.items[DiffKey(d)] = Strip(outcome.text)
                   /\ saved = "ok" =>
                          <<DiffKey(d), Strip(outcome.text)>> \in file.members

\* the majors of every diff, result, row or section of a list differ
MajorsDifferIn(ds) ==
    \A i \in DOMAIN ds : ds[i].installed_major # ds[i].latest_major

\* the two majors a cache key names, as the digits between ":" and "->" and
\* the digits after "->"
KeyOldMajor(k) ==
    LET colon == CHOOSE i \in DOMAIN k : k[i] = ":"
        arrow == CHOOSE i \in DOMAIN k : k[i] = "->"
    IN SubSeq(k, colon + 1, arrow - 1)

KeyNewMajor(k) ==
    LET arrow == CHOOSE i \in DOMAIN k : k[i] = "->"
    IN SubSeq(k, arrow + 1, Len(k))

\* C13: every diff check_version_diff has produced, in the list of diffs, in
\* the results, under the cache keys and in the rows and sections printed,
\* has an installed major different from its latest major; and for every
\* answer of the registry a package gets no diff exactly when its installed
\* version has no major, the registry has no latest version, the latest
\* version has no major, or the two majors are equal.
C13_MajorsDiffer ==
    /\ MajorsDifferIn(diffs)
    /\ \A i \in DOMAIN diffs :
          /\ diffs[i].installed_major = get_major_version(diffs[i].installed_version)
          /\ diffs[i].latest_major = get_major_version(diffs[i].latest_version)
    /\ MajorsDifferIn(uncached_diffs)
    /\ MajorsDifferIn(cached_results)
    /\ MajorsDifferIn(research_results)
    /\ cache.type = "dict" =>
          \A k \in DOMAIN cache.items : KeyOldMajor(k) # KeyNewMajor(k)
    /\ exit_status = 2 =>
          MajorsDifferIn(Printed.table_rows) /\ MajorsDifferIn(Printed.sections)
    /\ pc = "check_versions" =>
          \A latest \in RegistryAnswers : \A i \in DOMAIN packages_to_check :
              LET pkg == packages_to_check[i][1]
                  version == packages_to_check[i][2]
                  NoDiff == \/ ~HasMajor(version)
                            \/ latest[pkg] \in {None, <<>>}
                            \/ ~HasMajor(latest[pkg])
                            \/ get_major_version(version) = get_major_version(latest[pkg])
              IN NoDiff <=> pkg \notin PackagesOf(CollectDiffs(packages_to_check, latest))

\* a document was printed for one package while the other, whose installed
\* version has a major, got no diff from the resolver
C13_OneDiffOneUpToDate ==
    /\ exit_status = 2
    /\ Printed.table_rows # <<>>
    /\ \E i \in DOMAIN packages_to_check :
          /\ HasMajor(packages_to_check[i][2])
          /\ ~StartsWith(packages_to_check[i][1], TYPES_PREFIX)
          /\ packages_to_check[i][1] \notin PackagesOf(diffs)

\* a step in which load_cache runs, and one in which save_cache runs
ReadStep == loaded' # loaded /\ loaded' # "no"

WriteStep == saved' # saved /\ saved' # "no"

\* C14: in one invocation load_cache runs at most once, and before any
\* research call is submitted; save_cache runs at most once, and when every
\* research call has returned its text or its failure marker; the file
\* changes in no other step; and while a research call runs the cache has
\* been read and has not been written.
C14_CacheAccessOrder ==
    /\ [][/\ ReadStep => (loaded = "no" /\ saved = "no" /\ futures = <<>>)
          /\ WriteStep =>
                 /\ saved = "no" /\ loaded # "no"
                 /\ \A i \in DOMAIN futures : Returned(i)
          /\ file' # file => WriteStep]_vars
    /\ [](InFlight > 0 => (loaded # "no" /\ saved = "no"))

\* the file was read, two calls were made, one of them failed, and the cache
\* was written
C14_ReadThenResearchedThenSaved ==
    /\ loaded = "object"
    /\ saved = "ok"
    /\ Len(futures) >= 2
    /\ \E i \in DOMAIN futures : Failed(i)

\* a research call of this invocation returned a text the loop stores
NewEntryAdded ==
    \E i \in DOMAIN futures :
        /\ futures[i].state = "yielded"
        /\ Cacheable(futures[i].result[1])
        /\ cache.type = "dict"

\* C15: once main is past the dispatcher, save_cache has run if and only if
\* a new entry was added to the cache in this invocation: when every diff
\* was a cache hit, or every research call failed, the file was not written.
C15_SavedIffNewEntry ==
    pc \in {"compose", "exited"} => ((saved # "no") <=> NewEntryAdded)

\* d is an @types/ diff and the name after the prefix is the package of a
\* diff of ds that is no @types/ diff
Redundant(d, ds) ==
    /\ d.package[1] = "@types/"
    /\ \E j \in DOMAIN ds :
          /\ ds[j].package[1] # "@types/"
          /\ ds[j].package = Tail(d.package)

\* where d is in a list that holds it once
Position(d, ds) == CHOOSE k \in DOMAIN ds : ds[k] = d

\* C16: the filter drops a diff exactly when it is an @types/ diff whose
\* name without the prefix is the package of a diff of the same list that is
\* no @types/ diff, whatever the majors of the two; it keeps every other
\* diff, once, and the diffs it keeps are in the order they had.
C16_FilterExact ==
    [][pc = "filter" =>
          /\ \A i \in DOMAIN diffs :
                 (diffs[i] \in Range(diffs')) <=> ~Redundant(diffs[i], diffs)
          /\ \A k \in DOMAIN diffs' : diffs'[k] \in Range(diffs)
          /\ \A k, l \in DOMAIN diffs' :
                 k < l => Position(diffs'[k], diffs) < Position(diffs'[l], diffs)]_vars

\* @types/lodash was dropped for a lodash diff of another installed major,
\* and two or more diffs are left
C16_ShadowOfOtherMajorsDropped ==
    /\ pc = "load_cache"
    /\ Len(diffs) >= 2
    /\ \E i \in DOMAIN packages_to_check : \E j \in DOMAIN diffs :
          /\ packages_to_check[i][1] = TYPES_LODASH
          /\ TYPES_LODASH \notin PackagesOf(diffs)
          /\ diffs[j].package = LODASH
          /\ diffs[j].installed_major # get_major_version(packages_to_check[i][2])

\* C17: the filter applied to its own output returns that output.
C17_FilterIdempotent ==
    [][(pc = "load_cache" /\ pc' = "filtered_again") => diffs' = diffs]_vars

\* the filter has run twice on a list from which it had dropped a diff
C17_FilteredTwice ==
    /\ pc = "filtered_again"
    /\ diffs # <<>>
    /\ Len(diffs) < Len(packages_to_check)

\* C18: in the summary line printed, the number of diffs is the number of
\* diffs that survived the filter, the cached count is the number of diffs
\* found in the loaded cache, the researched count is the number of diffs
\* dispatched, the two counts add up to the number of diffs, and the "all
\* cached" form is printed exactly when no diff was dispatched.
C18_SummaryCounts ==
    exit_status = 2 =>
        LET m == Printed.systemMessage
        IN /\ m.checked = Len(packages_to_check)
           /\ m.diffs = Len(diffs)
           /\ m.cached = Len(cached_results)
           /\ m.researched = Len(uncached_diffs)
           /\ m.cached + m.researched = m.diffs
           /\ (m.form = "all cached") <=> (uncached_diffs = <<>>)

\* the package a word of an install command names: the word without its
\* version or tag, the scope being part of the name
NamedPackage(word) ==
    IF word[1] = "@types/" THEN <<word[1]>> \o BareName(Tail(word))
    ELSE BareName(word)

\* the packages an install command names: its words that are no flags
NamedPackages(args) ==
    LET words == SelectSeq(args, LAMBDA w : w[1] \notin FlagTokens)
    IN {NamedPackage(words[i]) : i \in DOMAIN words}

\* C19: when the command names packages, the packages checked are named
\* packages with their manifest entries, so that a package without a
\* manifest entry and a package the command does not name get no registry
\* lookup, no diff and no research call; and when no named package has a
\* manifest entry the process exits 0 and prints nothing.
C19_OnlyNamedChecked ==
    (pc # "read_input" /\ hook_input.shape = "object" /\ hook_input.tool_name = "Bash"
        /\ NamedPackages(hook_input.command.args) # {}) =>
        LET named == NamedPackages(hook_input.command.args)
            explicit_packages == parse_command_packages(hook_input.command.args)
        IN /\ \A i \in DOMAIN packages_to_check : packages_to_check[i][1] \in named
           /\ PackagesOf(diffs) \subseteq named
           /\ PackagesOf(uncached_diffs) \subseteq named
           /\ Len(futures) <= Cardinality(named)
           /\ packages_to_check = <<>> =>
                  (pc = "exited" /\ exit_status = 0 /\ stdout = <<>>)
           /\ \A installed \in Manifests :
                  LET checked == PackagesToCheck(explicit_packages, installed)
                  IN /\ \A i \in DOMAIN checked :
                            /\ checked[i][1] \in named
                            /\ checked[i] \in Range(installed)
                     /\ (\A i \in DOMAIN installed : installed[i][1] \notin named)
                            => checked = <<>>

\* how many entries of a list are about a package
CountOf(pkg, rs) == Cardinality({k \in DOMAIN rs : rs[k].package = pkg})

\* C20: in one invocation there is one research call for each uncached
\* diff and none for a diff found in the cache, no diff is called twice, and
\* every diff that survived the filter has exactly one row and exactly one
\* section in the document printed.
C20_ExactlyOnce ==
    /\ Len(futures) = Len(uncached_diffs)
    /\ \A i \in DOMAIN uncached_diffs :
          /\ CountOf(uncached_diffs[i].package, uncached_diffs) = 1
          /\ CountOf(uncached_diffs[i].package, cached_results) = 0
    /\ exit_status = 2 =>
          \A i \in DOMAIN diffs :
              /\ CountOf(diffs[i].package, Printed.table_rows) = 1
              /\ CountOf(diffs[i].package, Printed.sections) = 1

=============================================================================
